---- MODULE Spec2Model ----
(***************************************************************************)
(* Character sheet service (sheetservice.go): an HTTP lookup service that  *)
(* caches, per configured character key, the attribute map fetched from a  *)
(* remote spreadsheet, serves the cached map and refreshes an expired      *)
(* entry in a background goroutine.                                        *)
(*                                                                         *)
(* Strings the code takes apart (request paths, character keys, URLs) are  *)
(* sequences of one-character strings.  The cache is map[string]*CacheEntry *)
(* and its values are pointers, so entries and attribute maps live in two  *)
(* heaps (heap, mapHeap) and are referred to by index.  The code takes no  *)
(* lock anywhere, so every read or write of the map, of an entry field or  *)
(* of the clock is a step of its own.  A pointer stored under a key always *)
(* points to an entry made for that key, so each key has its own region of *)
(* the two heaps: heap[k][i] is the i-th entry allocated for k.            *)
(***************************************************************************)
EXTENDS Integers, Sequences, FiniteSets, TLC

VARIABLES phase, toPrime, ValidUrls, Cache, heap, mapHeap, now,
          pc, loc, resp, fetches, spawned, requests

vars == <<phase, toPrime, ValidUrls, Cache, heap, mapHeap, now,
          pc, loc, resp, fetches, spawned, requests>>

----------------------------------------------------------------------------
(* Bounds of the model *)

\* requests the HTTP server accepts in one run
MaxRequests == 4
\* the clock stops advancing here (seconds)
MaxTime == 60
\* the same for the earlier variant, whose entries live for a minute
MaxTimeLazy == 120
\* the run with few requests and a longer clock: requests accepted, and
\* where the clock stops
MaxRequestsLive == 2
MaxTimeLive == 90

(* Program constants *)

\* UpdateCachedEntry: time.Now().Add(30 * time.Second)
TTL == 30

\* the earlier variant of the program: cache.New(1*time.Minute, time.Hour)
DefaultExpiration == 60

StatusOK == 200
StatusNotFound == 404
StatusMethodNotAllowed == 405

----------------------------------------------------------------------------
(* Configuration (config.json) and the requests and upstream answers the   *)
(* model draws its inputs from                                             *)

KeyA == <<"a">>
KeyB == <<"b">>

\* LoadCharacterSheetConfig: characterKey -> ConfigEntry
Characters ==
    [k \in {KeyA, KeyB} |->
        IF k = KeyA
        THEN [CharacterKey |-> KeyA, SheetId |-> "sheetA",
              Attributes |-> << [Name |-> "hp", Range |-> "HP_CURRENT"],
                                [Name |-> "mp", Range |-> "MP_CURRENT"] >>]
        ELSE [CharacterKey |-> KeyB, SheetId |-> "sheetB",
              Attributes |-> << [Name |-> "hp", Range |-> "HP_CURRENT"] >>]]

\* the handler goroutines net/http runs concurrently
Procs == {"h1", "h2"}

Methods == {"GET", "POST"}

\* request paths: /a  /b  /a/  /z
Paths == { <<"/", "a">>, <<"/", "b">>, <<"/", "a", "/">>, <<"/", "z">> }

\* a cell of the sheet as the API client decodes it (interface{})
Num(n) == [kind |-> "num", n |-> n]
Str(s) == [kind |-> "str", s |-> s]

\* what BatchGet may answer for a character: one ValueRange per requested
\* range, aligned by position; Values is a list of rows of cells
BatchResponses(k) ==
    IF k = KeyA
    THEN { << [Values |-> << <<Num(42)>> >>], [Values |-> << <<Str("10")>> >>] >>,
           << [Values |-> << <<Str("39")>> >>], [Values |-> << >>] >> }
    ELSE { << [Values |-> << <<Num(7)>> >>] >> }

\* clock steps: one TTL, so that an entry is seen before, exactly at and
\* after its expiry instant
TickSteps == {TTL}

----------------------------------------------------------------------------
(* Pure helpers *)

\* strings.Trim(s, "/"): drop every leading and trailing "/"
RECURSIVE TrimLeft(_)
TrimLeft(s) ==
    IF s # << >> /\ Head(s) = "/" THEN TrimLeft(Tail(s)) ELSE s

RECURSIVE TrimRight(_)
TrimRight(s) ==
    IF s # << >> /\ s[Len(s)] = "/" THEN TrimRight(SubSeq(s, 1, Len(s) - 1)) ELSE s

Trim(s) == TrimRight(TrimLeft(s))

\* fmt.Sprintf("%v", cell)
Sprint(c) == IF c.kind = "num" THEN ToString(c.n) ELSE c.s

\* charMap[name] = value
MapSet(m, name, v) ==
    [n \in DOMAIN m \cup {name} |-> IF n = name THEN v ELSE m[n]]

\* the empty map[string]string
EmptyMap == [n \in {} |-> ""]

\* FetchCharacterAttributesFromSheetsApi, the loop that maps ranges to
\* names: ok = FALSE stands for the index-out-of-range panic
RECURSIVE BuildFrom(_, _, _, _)
BuildFrom(attrs, valueRanges, i, charMap) ==
    IF i > Len(attrs) THEN [ok |-> TRUE, map |-> charMap]
    ELSE IF i > Len(valueRanges) THEN [ok |-> FALSE, map |-> charMap]
    ELSE LET values == valueRanges[i].Values IN
         IF Len(values) = 0
         THEN BuildFrom(attrs, valueRanges, i + 1, charMap)
         ELSE IF Len(values[1]) = 0 THEN [ok |-> FALSE, map |-> charMap]
         ELSE BuildFrom(attrs, valueRanges, i + 1,
                        MapSet(charMap, attrs[i].Name, Sprint(values[1][1])))

\* the loop with the empty case storing an empty string under the name
\* instead of omitting the name
RECURSIVE BuildFromKeepEmpty(_, _, _, _)
BuildFromKeepEmpty(attrs, valueRanges, i, charMap) ==
    IF i > Len(attrs) THEN [ok |-> TRUE, map |-> charMap]
    ELSE IF i > Len(valueRanges) THEN [ok |-> FALSE, map |-> charMap]
    ELSE LET values == valueRanges[i].Values IN
         IF Len(values) = 0
         THEN BuildFromKeepEmpty(attrs, valueRanges, i + 1,
                                 MapSet(charMap, attrs[i].Name, ""))
         ELSE IF Len(values[1]) = 0 THEN [ok |-> FALSE, map |-> charMap]
         ELSE BuildFromKeepEmpty(attrs, valueRanges, i + 1,
                        MapSet(charMap, attrs[i].Name, Sprint(values[1][1])))

BuildCharMapKeepEmpty(charConfig, batchResp) ==
    BuildFromKeepEmpty(charConfig.Attributes, batchResp, 1, EmptyMap)

BuildCharMap(charConfig, batchResp) ==
    BuildFrom(charConfig.Attributes, batchResp, 1, EmptyMap)

\* NewCharacterSheetApp: "/"+key, the relative link to a character
UrlOfNoSlash(key) == key
UrlOf(key) == <<"/">> \o key

\* time.Time.After
AfterOrAt(t, u) == t >= u
After(t, u) == t > u

\* LookupCharacter, the condition of line 209
ShouldRefreshNoFlag(flag, t, expires) == After(t, expires)
ShouldRefreshEither(flag, t, expires) == flag = FALSE \/ After(t, expires)
ShouldRefresh(flag, t, expires) == flag = FALSE /\ After(t, expires)

----------------------------------------------------------------------------
(* State *)

\* a handler's local variables; started and inst are history kept for the
\* properties: whether this call started a refresh, and which entries of
\* the key had been installed in the map when the call read it
NoLocal == [charKey |-> << >>, entry |-> 0, now |-> 0,
            started |-> FALSE, inst |-> {}]
NoResp == [status |-> 0]

\* a goroutine (or, at startup, the main goroutine) inside
\* FetchCharacterAttributesFromSheetsApi; start is history kept for the
\* properties: the time at which the call was made
NewFetch(id, k, owner) ==
    [id |-> id, key |-> k, owner |-> owner, stage |-> "call",
     charMap |-> 0, entry |-> 0, start |-> now]

Init ==
    /\ phase = "starting"
    /\ toPrime = DOMAIN Characters
    /\ ValidUrls = << >>
    /\ Cache = [k \in {} |-> 0]
    /\ heap = [k \in DOMAIN Characters |-> << >>]
    /\ mapHeap = [k \in DOMAIN Characters |-> << >>]
    /\ now = 0
    /\ pc = [p \in Procs |-> "idle"]
    /\ loc = [p \in Procs |-> NoLocal]
    /\ resp = [p \in Procs |-> NoResp]
    /\ fetches = {}
    /\ spawned = [k \in DOMAIN Characters |-> 0]
    /\ requests = 0

MainFetching == \E f \in fetches : f.owner = "main"

\* the entries of key k that have been stored in the map so far: all that
\* were allocated, but those a goroutine is about to store
Installed(k) ==
    {i \in 1..Len(heap[k]) :
        ~\E f \in fetches : f.key = k /\ f.stage = "install" /\ f.entry = i}

----------------------------------------------------------------------------
(* Startup: NewCharacterSheetApp *)

\* the loop registering the URL only, leaving the fetch to the first request
StartupIterNoPrime(k) ==
    /\ phase = "starting"
    /\ ~MainFetching
    /\ k \in toPrime
    /\ toPrime' = toPrime \ {k}
    /\ ValidUrls' = Append(ValidUrls, UrlOf(k))
    /\ UNCHANGED <<phase, Cache, heap, mapHeap, now, pc, loc, resp, fetches,
                   spawned, requests>>

\* one iteration of `for key := range app.Characters` up to the call of
\* FetchCharacterAttributesFromSheetsApi(key); Go's map order is arbitrary
StartupIter(k) ==
    /\ phase = "starting"
    /\ ~MainFetching
    /\ k \in toPrime
    /\ toPrime' = toPrime \ {k}
    /\ ValidUrls' = Append(ValidUrls, UrlOf(k))
    /\ fetches' = fetches \cup {NewFetch(spawned[k] + 1, k, "main")}
    /\ spawned' = [spawned EXCEPT ![k] = @ + 1]
    /\ UNCHANGED <<phase, Cache, heap, mapHeap, now, pc, loc, resp, requests>>

\* main: http.ListenAndServe
Serve ==
    /\ phase = "starting"
    /\ toPrime = {}
    /\ ~MainFetching
    /\ phase' = "serving"
    /\ UNCHANGED <<toPrime, ValidUrls, Cache, heap, mapHeap, now,
                   pc, loc, resp, fetches, spawned, requests>>

----------------------------------------------------------------------------
(* FetchCharacterAttributesFromSheetsApi and UpdateCachedEntry *)

\* the fetch filling the attribute map the key's entry already holds
\* rather than a map of its own
FetchRespondInPlace(f, r) ==
    /\ phase # "dead"
    /\ f \in fetches /\ f.stage = "call"
    /\ r \in BatchResponses(f.key)
    /\ LET built == BuildCharMap(Characters[f.key], r) IN
         IF built.ok
         THEN /\ IF f.key \in DOMAIN Cache
                 THEN /\ mapHeap' = [mapHeap EXCEPT
                            ![f.key][heap[f.key][Cache[f.key]].Attributes] = built.map]
                      /\ fetches' = (fetches \ {f}) \cup
                            {[f EXCEPT !.stage = "update",
                                 !.charMap = heap[f.key][Cache[f.key]].Attributes]}
                 ELSE /\ mapHeap' = [mapHeap EXCEPT ![f.key] = Append(@, built.map)]
                      /\ fetches' = (fetches \ {f}) \cup
                            {[f EXCEPT !.stage = "update",
                                       !.charMap = Len(mapHeap[f.key]) + 1]}
              /\ phase' = phase
         ELSE /\ phase' = "dead"
              /\ UNCHANGED <<mapHeap, fetches>>
    /\ UNCHANGED <<toPrime, ValidUrls, Cache, heap, now, pc, loc, resp,
                   spawned, requests>>

\* BatchGet(...).Do() answers; the loop builds charMap, a fresh map
FetchRespond(f, r) ==
    /\ phase # "dead"
    /\ f \in fetches /\ f.stage = "call"
    /\ r \in BatchResponses(f.key)
    /\ LET built == BuildCharMap(Characters[f.key], r) IN
         IF built.ok
         THEN /\ mapHeap' = [mapHeap EXCEPT ![f.key] = Append(@, built.map)]
              /\ fetches' = (fetches \ {f}) \cup
                    {[f EXCEPT !.stage = "update",
                               !.charMap = Len(mapHeap[f.key]) + 1]}
              /\ phase' = phase
         ELSE /\ phase' = "dead"
              /\ UNCHANGED <<mapHeap, fetches>>
    /\ UNCHANGED <<toPrime, ValidUrls, Cache, heap, now, pc, loc, resp,
                   spawned, requests>>

\* BatchGet(...).Do() returns an error: log.Fatalf exits the process
FetchFail(f) ==
    /\ phase # "dead"
    /\ f \in fetches /\ f.stage = "call"
    /\ phase' = "dead"
    /\ UNCHANGED <<toPrime, ValidUrls, Cache, heap, mapHeap, now, pc, loc,
                   resp, fetches, spawned, requests>>

\* UpdateCachedEntry updating the entry the map holds field by field: the
\* attributes are replaced first, expiry and flag are still the old ones
FetchAllocateInPlace(f) ==
    /\ phase # "dead"
    /\ f \in fetches /\ f.stage = "update"
    /\ IF f.key \in DOMAIN Cache
       THEN /\ heap' = [heap EXCEPT ![f.key][Cache[f.key]].Attributes = f.charMap]
            /\ fetches' = (fetches \ {f}) \cup
                    {[f EXCEPT !.stage = "install", !.entry = Cache[f.key]]}
       ELSE /\ heap' = [heap EXCEPT ![f.key] =
                           Append(@, [Attributes |-> f.charMap,
                                      Expires |-> now + TTL,
                                      UpdatingFlag |-> FALSE])]
            /\ fetches' = (fetches \ {f}) \cup
                    {[f EXCEPT !.stage = "install", !.entry = Len(heap[f.key]) + 1]}
    /\ UNCHANGED <<phase, toPrime, ValidUrls, Cache, mapHeap, now, pc, loc,
                   resp, spawned, requests>>

\* UpdateCachedEntry counting the lifetime from the start of the fetch
FetchAllocateFromStart(f) ==
    /\ phase # "dead"
    /\ f \in fetches /\ f.stage = "update"
    /\ heap' = [heap EXCEPT ![f.key] =
                    Append(@, [Attributes |-> f.charMap,
                               Expires |-> f.start + TTL,
                               UpdatingFlag |-> FALSE])]
    /\ fetches' = (fetches \ {f}) \cup
            {[f EXCEPT !.stage = "install", !.entry = Len(heap[f.key]) + 1]}
    /\ UNCHANGED <<phase, toPrime, ValidUrls, Cache, mapHeap, now, pc, loc,
                   resp, spawned, requests>>

\* UpdateCachedEntry: the &CacheEntry{...} literal is built, time.Now() read
FetchAllocate(f) ==
    /\ phase # "dead"
    /\ f \in fetches /\ f.stage = "update"
    /\ heap' = [heap EXCEPT ![f.key] =
                    Append(@, [Attributes |-> f.charMap,
                               Expires |-> now + TTL,
                               UpdatingFlag |-> FALSE])]
    /\ fetches' = (fetches \ {f}) \cup
            {[f EXCEPT !.stage = "install", !.entry = Len(heap[f.key]) + 1]}
    /\ UNCHANGED <<phase, toPrime, ValidUrls, Cache, mapHeap, now, pc, loc,
                   resp, spawned, requests>>

\* app.Cache[charKey] = entry pointer
MapStore(m, k, ptr) == [x \in DOMAIN m \cup {k} |-> IF x = k THEN ptr ELSE m[x]]

\* UpdateCachedEntry: the map assignment; the function returns
FetchInstall(f) ==
    /\ phase # "dead"
    /\ f \in fetches /\ f.stage = "install"
    /\ Cache' = MapStore(Cache, f.key, f.entry)
    /\ fetches' = fetches \ {f}
    /\ UNCHANGED <<phase, toPrime, ValidUrls, heap, mapHeap, now, pc, loc,
                   resp, spawned, requests>>

----------------------------------------------------------------------------
(* HandleRequest and LookupCharacter, one handler goroutine p *)

\* HandleRequest up to the call of LookupCharacter
Request(p, method, path) ==
    /\ phase = "serving"
    /\ pc[p] = "idle"
    /\ requests < MaxRequests
    /\ requests' = requests + 1
    /\ IF method # "GET"
       THEN /\ resp' = [resp EXCEPT ![p] =
                    [status |-> StatusMethodNotAllowed, urls |-> ValidUrls]]
            /\ UNCHANGED <<pc, loc>>
       ELSE /\ resp' = [resp EXCEPT ![p] = NoResp]
            /\ loc' = [loc EXCEPT ![p] =
                    [NoLocal EXCEPT !.charKey = Trim(path)]]
            /\ pc' = [pc EXCEPT ![p] = "lookup"]
    /\ UNCHANGED <<phase, toPrime, ValidUrls, Cache, heap, mapHeap, now,
                   fetches, spawned>>

\* entry, found := app.Cache[charKey]; not found: the 404 response
LookupRead(p) ==
    /\ phase = "serving"
    /\ pc[p] = "lookup"
    /\ IF loc[p].charKey \in DOMAIN Cache
       THEN /\ loc' = [loc EXCEPT ![p].entry = Cache[loc[p].charKey],
                                  ![p].inst = Installed(loc[p].charKey)]
            /\ pc' = [pc EXCEPT ![p] = "clock"]
            /\ resp' = resp
       ELSE /\ resp' = [resp EXCEPT ![p] =
                    [status |-> StatusNotFound, urls |-> ValidUrls]]
            /\ loc' = [loc EXCEPT ![p] = NoLocal]
            /\ pc' = [pc EXCEPT ![p] = "idle"]
    /\ UNCHANGED <<phase, toPrime, ValidUrls, Cache, heap, mapHeap, now,
                   fetches, spawned, requests>>

\* now := time.Now()
LookupClock(p) ==
    /\ phase = "serving"
    /\ pc[p] = "clock"
    /\ loc' = [loc EXCEPT ![p].now = now]
    /\ pc' = [pc EXCEPT ![p] = "check"]
    /\ UNCHANGED <<phase, toPrime, ValidUrls, Cache, heap, mapHeap, now,
                   resp, fetches, spawned, requests>>

\* if entry.UpdatingFlag == false && now.After(entry.Expires)
LookupCheck(p) ==
    /\ phase = "serving"
    /\ pc[p] = "check"
    /\ LET entry == heap[loc[p].charKey][loc[p].entry] IN
         pc' = [pc EXCEPT ![p] =
                  IF ShouldRefresh(entry.UpdatingFlag, loc[p].now, entry.Expires)
                  THEN "setflag" ELSE "ret"]
    /\ UNCHANGED <<phase, toPrime, ValidUrls, Cache, heap, mapHeap, now,
                   loc, resp, fetches, spawned, requests>>

\* entry.UpdatingFlag = true
LookupSetFlag(p) ==
    /\ phase = "serving"
    /\ pc[p] = "setflag"
    /\ heap' = [heap EXCEPT ![loc[p].charKey][loc[p].entry].UpdatingFlag = TRUE]
    /\ pc' = [pc EXCEPT ![p] = "store"]
    /\ UNCHANGED <<phase, toPrime, ValidUrls, Cache, mapHeap, now,
                   loc, resp, fetches, spawned, requests>>

\* app.Cache[charKey] = entry
LookupStore(p) ==
    /\ phase = "serving"
    /\ pc[p] = "store"
    /\ Cache' = MapStore(Cache, loc[p].charKey, loc[p].entry)
    /\ pc' = [pc EXCEPT ![p] = "spawn"]
    /\ UNCHANGED <<phase, toPrime, ValidUrls, heap, mapHeap, now,
                   loc, resp, fetches, spawned, requests>>

\* the call without `go`: the handler runs the fetch itself
LookupSpawnSync(p) ==
    /\ phase = "serving"
    /\ pc[p] = "spawn"
    /\ fetches' = fetches \cup
            {NewFetch(spawned[loc[p].charKey] + 1, loc[p].charKey, p)}
    /\ spawned' = [spawned EXCEPT ![loc[p].charKey] = @ + 1]
    /\ pc' = [pc EXCEPT ![p] = "fetching"]
    /\ loc' = [loc EXCEPT ![p].started = TRUE]
    /\ UNCHANGED <<phase, toPrime, ValidUrls, Cache, heap, mapHeap, now,
                   resp, requests>>

\* go app.FetchCharacterAttributesFromSheetsApi(charKey)
LookupSpawn(p) ==
    /\ phase = "serving"
    /\ pc[p] = "spawn"
    /\ fetches' = fetches \cup
            {NewFetch(spawned[loc[p].charKey] + 1, loc[p].charKey, "go")}
    /\ spawned' = [spawned EXCEPT ![loc[p].charKey] = @ + 1]
    /\ pc' = [pc EXCEPT ![p] = "ret"]
    /\ loc' = [loc EXCEPT ![p].started = TRUE]
    /\ UNCHANGED <<phase, toPrime, ValidUrls, Cache, heap, mapHeap, now,
                   resp, requests>>

\* return entry.Attributes, true; HandleRequest writes the 200 response
LookupReturn(p) ==
    /\ phase = "serving"
    /\ pc[p] = "ret"
    /\ LET k == loc[p].charKey
           ptr == heap[k][loc[p].entry].Attributes IN
         resp' = [resp EXCEPT ![p] =
                    [status |-> StatusOK,
                     key |-> k, entry |-> loc[p].entry,
                     ptr |-> ptr, attributes |-> mapHeap[k][ptr],
                     started |-> loc[p].started, at |-> loc[p].now,
                     inst |-> loc[p].inst, end |-> now]]
    /\ loc' = [loc EXCEPT ![p] = NoLocal]
    /\ pc' = [pc EXCEPT ![p] = "idle"]
    /\ UNCHANGED <<phase, toPrime, ValidUrls, Cache, heap, mapHeap, now,
                   fetches, spawned, requests>>

\* the steps of handler p inside HandleRequest / LookupCharacter
LookupStep(p) ==
    \/ LookupRead(p)
    \/ LookupClock(p)
    \/ LookupCheck(p)
    \/ LookupSetFlag(p)
    \/ LookupStore(p)
    \/ LookupSpawn(p)
    \/ LookupReturn(p)

----------------------------------------------------------------------------
(* The map is shared without synchronisation (the FIXME of the struct):    *)
(* when two goroutines are both about to access it and one of them writes, *)
(* the accesses may overlap and the Go runtime may end the process with    *)
(* "fatal error: concurrent map read and map write" / "concurrent map      *)
(* writes".                                                                *)

MapReaders == Cardinality({p \in Procs : pc[p] = "lookup"})
MapWriters == Cardinality({p \in Procs : pc[p] = "store"}) +
              Cardinality({f \in fetches : f.stage = "install"})

ConcurrentMapAccess ==
    /\ phase = "serving"
    /\ MapWriters >= 1
    /\ MapWriters + MapReaders >= 2
    /\ phase' = "dead"
    /\ UNCHANGED <<toPrime, ValidUrls, Cache, heap, mapHeap, now, pc, loc,
                   resp, fetches, spawned, requests>>

----------------------------------------------------------------------------
(* The clock *)

Tick(d) ==
    /\ phase # "dead"
    /\ now + d <= MaxTime
    /\ now' = now + d
    /\ UNCHANGED <<phase, toPrime, ValidUrls, Cache, heap, mapHeap,
                   pc, loc, resp, fetches, spawned, requests>>

----------------------------------------------------------------------------

Next ==
    \/ \E k \in DOMAIN Characters : StartupIter(k)
    \/ Serve
    \/ \E f \in fetches : \E r \in BatchResponses(f.key) : FetchRespond(f, r)
    \/ \E f \in fetches : FetchFail(f)
    \/ \E f \in fetches : FetchAllocate(f)
    \/ \E f \in fetches : FetchInstall(f)
    \/ \E p \in Procs : \E m \in Methods : \E path \in Paths : Request(p, m, path)
    \/ \E p \in Procs : LookupRead(p)
    \/ \E p \in Procs : LookupClock(p)
    \/ \E p \in Procs : LookupCheck(p)
    \/ \E p \in Procs : LookupSetFlag(p)
    \/ \E p \in Procs : LookupStore(p)
    \/ \E p \in Procs : LookupSpawn(p)
    \/ \E p \in Procs : LookupReturn(p)
    \/ ConcurrentMapAccess
    \/ \E d \in TickSteps : Tick(d)

Spec == Init /\ [][Next]_vars

----------------------------------------------------------------------------
(* The same program with few requests and a longer clock, and with the     *)
(* progress its scheduling gives: the Go scheduler runs every runnable     *)
(* goroutine, so a handler inside LookupCharacter, a fetch past its        *)
(* upstream call and the startup loop each take their next step.  Nothing  *)
(* makes the upstream answer: BatchGet(...).Do() is called with            *)
(* context.Background() and no timeout, and clients need not send          *)
(* requests.                                                               *)

\* HandleRequest up to the call of LookupCharacter
RequestLive(p, method, path) ==
    /\ phase = "serving"
    /\ pc[p] = "idle"
    /\ requests < MaxRequestsLive
    /\ requests' = requests + 1
    /\ IF method # "GET"
       THEN /\ resp' = [resp EXCEPT ![p] =
                    [status |-> StatusMethodNotAllowed, urls |-> ValidUrls]]
            /\ UNCHANGED <<pc, loc>>
       ELSE /\ resp' = [resp EXCEPT ![p] = NoResp]
            /\ loc' = [loc EXCEPT ![p] =
                    [NoLocal EXCEPT !.charKey = Trim(path)]]
            /\ pc' = [pc EXCEPT ![p] = "lookup"]
    /\ UNCHANGED <<phase, toPrime, ValidUrls, Cache, heap, mapHeap, now,
                   fetches, spawned>>

TickLive(d) ==
    /\ phase # "dead"
    /\ now + d <= MaxTimeLive
    /\ now' = now + d
    /\ UNCHANGED <<phase, toPrime, ValidUrls, Cache, heap, mapHeap,
                   pc, loc, resp, fetches, spawned, requests>>

NextLive ==
    \/ \E k \in DOMAIN Characters : StartupIter(k)
    \/ Serve
    \/ \E f \in fetches : \E r \in BatchResponses(f.key) : FetchRespond(f, r)
    \/ \E f \in fetches : FetchFail(f)
    \/ \E f \in fetches : FetchAllocate(f)
    \/ \E f \in fetches : FetchInstall(f)
    \/ \E p \in Procs : \E m \in Methods : \E path \in Paths :
            RequestLive(p, m, path)
    \/ \E p \in Procs : LookupRead(p)
    \/ \E p \in Procs : LookupClock(p)
    \/ \E p \in Procs : LookupCheck(p)
    \/ \E p \in Procs : LookupSetFlag(p)
    \/ \E p \in Procs : LookupStore(p)
    \/ \E p \in Procs : LookupSpawn(p)
    \/ \E p \in Procs : LookupReturn(p)
    \/ ConcurrentMapAccess
    \/ \E d \in TickSteps : TickLive(d)

\* the steps the scheduler is bound to take
Fairness ==
    /\ WF_vars(\E k \in DOMAIN Characters : StartupIter(k))
    /\ WF_vars(Serve)
    /\ \A p \in Procs : WF_vars(LookupStep(p))
    /\ WF_vars(\E f \in fetches : FetchAllocate(f))
    /\ WF_vars(\E f \in fetches : FetchInstall(f))

SpecLive == Init /\ [][NextLive]_vars /\ Fairness

----------------------------------------------------------------------------
(* The earlier variant of the program (go-cache, no background refresh):   *)
(* LookupCharacter asks the cache, and on a miss fetches from the sheet    *)
(* itself, stores the result with the default expiration and returns it.   *)
(* go-cache locks its map, so Get and Set are single steps; an item past   *)
(* its expiration is a miss.  Cache[k] and heap[k] hold the items.          *)

\* cache.Get: found unless absent or time.Now() is past the expiration
CacheGet(k, t) ==
    IF k \in DOMAIN Cache /\ ~(t > heap[k][Cache[k]].Expires)
    THEN [found |-> TRUE, item |-> Cache[k]]
    ELSE [found |-> FALSE, item |-> 0]

\* NewCharacterSheetApp: one iteration of the loop, up to the fetch that
\* the priming app.LookupCharacter(key) makes on its cache miss
LazyStartupIter(k) ==
    /\ phase = "starting"
    /\ ~MainFetching
    /\ k \in toPrime
    /\ toPrime' = toPrime \ {k}
    /\ ValidUrls' = Append(ValidUrls, UrlOf(k))
    /\ IF CacheGet(k, now).found
       THEN UNCHANGED <<fetches, spawned>>
       ELSE /\ fetches' = fetches \cup {NewFetch(spawned[k] + 1, k, "main")}
            /\ spawned' = [spawned EXCEPT ![k] = @ + 1]
    /\ UNCHANGED <<phase, Cache, heap, mapHeap, now, pc, loc, resp, requests>>

\* LookupCharacter up to the cache hit or the start of the fetch, and
\* HandleRequest's response for an unknown key and for a hit
LazyLookup(p) ==
    /\ phase = "serving"
    /\ pc[p] = "lookup"
    /\ LET k == loc[p].charKey IN
       IF k \notin DOMAIN Characters
       THEN /\ resp' = [resp EXCEPT ![p] =
                    [status |-> StatusNotFound, urls |-> ValidUrls]]
            /\ loc' = [loc EXCEPT ![p] = NoLocal]
            /\ pc' = [pc EXCEPT ![p] = "idle"]
            /\ UNCHANGED <<fetches, spawned>>
       ELSE LET got == CacheGet(k, now) IN
            IF got.found
            THEN /\ resp' = [resp EXCEPT ![p] =
                        [status |-> StatusOK, key |-> k, entry |-> got.item,
                         ptr |-> heap[k][got.item].Attributes,
                         attributes |-> mapHeap[k][heap[k][got.item].Attributes],
                         cached |-> TRUE, started |-> FALSE,
                         inst |-> 1..Len(heap[k]), at |-> now, end |-> now]]
                 /\ loc' = [loc EXCEPT ![p] = NoLocal]
                 /\ pc' = [pc EXCEPT ![p] = "idle"]
                 /\ UNCHANGED <<fetches, spawned>>
            ELSE /\ fetches' = fetches \cup {NewFetch(spawned[k] + 1, k, p)}
                 /\ spawned' = [spawned EXCEPT ![k] = @ + 1]
                 /\ loc' = [loc EXCEPT ![p].started = TRUE,
                                       ![p].inst = 1..Len(heap[k]),
                                       ![p].now = now]
                 /\ pc' = [pc EXCEPT ![p] = "fetching"]
                 /\ resp' = resp
    /\ UNCHANGED <<phase, toPrime, ValidUrls, Cache, heap, mapHeap, now,
                   requests>>

\* app.Cache.Set(charKey, charMap, cache.DefaultExpiration); LookupCharacter
\* returns charMap, true, false and HandleRequest writes the response
LazySet(f) ==
    /\ phase # "dead"
    /\ f \in fetches /\ f.stage = "update"
    /\ heap' = [heap EXCEPT ![f.key] =
                    Append(@, [Attributes |-> f.charMap,
                               Expires |-> now + DefaultExpiration,
                               UpdatingFlag |-> FALSE])]
    /\ Cache' = MapStore(Cache, f.key, Len(heap[f.key]) + 1)
    /\ fetches' = fetches \ {f}
    /\ IF f.owner \in Procs
       THEN /\ resp' = [resp EXCEPT ![f.owner] =
                    [status |-> StatusOK, key |-> f.key,
                     entry |-> Len(heap[f.key]) + 1, ptr |-> f.charMap,
                     attributes |-> mapHeap[f.key][f.charMap],
                     cached |-> FALSE, started |-> loc[f.owner].started,
                     inst |-> loc[f.owner].inst, at |-> loc[f.owner].now,
                     end |-> now]]
            /\ loc' = [loc EXCEPT ![f.owner] = NoLocal]
            /\ pc' = [pc EXCEPT ![f.owner] = "idle"]
       ELSE UNCHANGED <<resp, loc, pc>>
    /\ UNCHANGED <<phase, toPrime, ValidUrls, mapHeap, now, spawned, requests>>

LazyTick(d) ==
    /\ phase # "dead"
    /\ now + d <= MaxTimeLazy
    /\ now' = now + d
    /\ UNCHANGED <<phase, toPrime, ValidUrls, Cache, heap, mapHeap,
                   pc, loc, resp, fetches, spawned, requests>>

NextLazy ==
    \/ \E k \in DOMAIN Characters : LazyStartupIter(k)
    \/ Serve
    \/ \E f \in fetches : \E r \in BatchResponses(f.key) : FetchRespond(f, r)
    \/ \E f \in fetches : FetchFail(f)
    \/ \E f \in fetches : LazySet(f)
    \/ \E p \in Procs : \E m \in Methods : \E path \in Paths : Request(p, m, path)
    \/ \E p \in Procs : LazyLookup(p)
    \/ \E d \in TickSteps : LazyTick(d)

SpecLazy == Init /\ [][NextLazy]_vars

----------------------------------------------------------------------------
(* FetchCharacterAttributesFromSheetsApi on its own: the startup fetch of  *)
(* a one-character configuration, for every character descriptor and every *)
(* upstream answer of a small universe.  The fetch carries the descriptor  *)
(* (app.Characters[charKey]) and the answer BatchGet will give it.         *)

\* most attributes a character descriptor has
MaxFields == 2

\* display names and the ranges they are read from
FieldNames == {"hp", "mp"}
RangeOf(name) == IF name = "hp" THEN "HP_CURRENT" ELSE "MP_CURRENT"

\* ConfigEntry.Attributes: one to MaxFields attributes, names distinct
FieldLists ==
    {a \in UNION {[1..n -> FieldNames] : n \in 1..MaxFields} :
        \A i, j \in DOMAIN a : a[i] = a[j] => i = j}

Descriptors(k) ==
    {[CharacterKey |-> k, SheetId |-> "sheet",
      Attributes |-> [i \in DOMAIN a |-> [Name |-> a[i], Range |-> RangeOf(a[i])]]] :
        a \in FieldLists}

\* ValueRange.Values as the API decodes it: no rows at all, one row of one
\* cell (a number, a string, the empty string), one row of two cells, two
\* rows, and a first row without cells
ValueLists ==
    { << >>,
      << <<Num(42)>> >>,
      << <<Str("10")>> >>,
      << <<Str("")>> >>,
      << <<Str("39"), Str("x")>> >>,
      << <<Num(7)>>, <<Str("y")>> >>,
      << << >>, <<Str("z")>> >> }

\* BatchGetValuesResponse.ValueRanges for n requested ranges
Answers(n) == [1..n -> {[Values |-> v] : v \in ValueLists}]

InitBuild ==
    /\ phase = "starting"
    /\ toPrime = {}
    /\ \E k \in DOMAIN Characters :
         /\ ValidUrls = <<UrlOf(k)>>
         /\ \E c \in Descriptors(k) : \E r \in Answers(Len(c.Attributes)) :
               fetches = {[id |-> 1, key |-> k, owner |-> "main",
                           stage |-> "call", charMap |-> 0, entry |-> 0,
                           start |-> 0, charConfig |-> c, batchResp |-> r]}
         /\ spawned = [j \in DOMAIN Characters |-> IF j = k THEN 1 ELSE 0]
    /\ Cache = [k \in {} |-> 0]
    /\ heap = [k \in DOMAIN Characters |-> << >>]
    /\ mapHeap = [k \in DOMAIN Characters |-> << >>]
    /\ now = 0
    /\ pc = [p \in Procs |-> "idle"]
    /\ loc = [p \in Procs |-> NoLocal]
    /\ resp = [p \in Procs |-> NoResp]
    /\ requests = 0

\* BatchGet(...).Do() answers f.batchResp; the loop builds charMap from the
\* descriptor; an index out of range ends the process (panic)
BuildRespond(f) ==
    /\ phase # "dead"
    /\ f \in fetches /\ f.stage = "call"
    /\ LET built == BuildCharMap(f.charConfig, f.batchResp) IN
         IF built.ok
         THEN /\ mapHeap' = [mapHeap EXCEPT ![f.key] = Append(@, built.map)]
              /\ fetches' = (fetches \ {f}) \cup
                    {[f EXCEPT !.stage = "update",
                               !.charMap = Len(mapHeap[f.key]) + 1]}
              /\ phase' = phase
         ELSE /\ phase' = "dead"
              /\ UNCHANGED <<mapHeap, fetches>>
    /\ UNCHANGED <<toPrime, ValidUrls, Cache, heap, now, pc, loc, resp,
                   spawned, requests>>

NextBuild ==
    \/ \E f \in fetches : BuildRespond(f)
    \/ \E f \in fetches : FetchAllocate(f)
    \/ \E f \in fetches : FetchInstall(f)
    \/ Serve
    \/ \E d \in TickSteps : Tick(d)

SpecBuild == InitBuild /\ [][NextBuild]_vars

----------------------------------------------------------------------------
(* Properties *)

Registered == DOMAIN Characters

\* the background refresh goroutines of key k that have not returned
Refreshes(k) == {f \in fetches : f.key = k /\ f.owner = "go"}

\* the entry the map holds for k
Current(k) == heap[k][Cache[k]]

Served(p) == resp[p].status = StatusOK

\* C1: for every registered key, at any instant at most one background
\* refresh goroutine is outstanding
C1_SingleFlight ==
    \A k \in Registered : Cardinality(Refreshes(k)) <= 1

\* C2: every expiry event starts exactly one refresh: the refresh
\* goroutines started for a key (all fetches but the priming one) never
\* outnumber the entries of the key whose expiry a caller has acted on
\* (the entries whose flag was set)
C2_OneRefreshPerExpiry ==
    \A k \in Registered :
        phase = "serving" =>
            spawned[k] - 1 <=
                Cardinality({i \in 1..Len(heap[k]) : heap[k][i].UpdatingFlag})

\* C3: once serving (every registered key has a snapshot), no handler ever
\* waits for an upstream fetch: no fetch runs on a handler's own path, and
\* a handler inside a lookup can always take its next step, whatever the
\* refresh goroutines are doing
C3_NeverBlocks ==
    /\ \A f \in fetches : f.owner \notin Procs
    /\ \A p \in Procs :
          phase = "serving" /\ pc[p] # "idle" => ENABLED LookupStep(p)

\* C3 witness: a lookup of an expired key has returned while the refresh of
\* that key is still waiting for the upstream answer
C3_Witness ==
    \E p \in Procs :
        /\ Served(p)
        /\ resp[p].at > heap[resp[p].key][resp[p].entry].Expires
        /\ \E f \in Refreshes(resp[p].key) : f.stage = "call"

\* C4: a lookup returns the snapshot of the entry the map held when the
\* call read it; it starts a background refresh exactly when that entry is
\* expired and its in-flight flag is not already set
C4_Call(p) ==
    LET k == loc[p].charKey
        e == heap[k][loc[p].entry]
    IN  /\ pc[p] = "lookup" /\ pc'[p] = "clock"
            => loc'[p].entry = Cache[k]
        /\ pc[p] = "check" /\ pc'[p] # "check"
            => ((pc'[p] = "setflag") <=>
                    (e.UpdatingFlag = FALSE /\ loc[p].now > e.Expires))
        /\ pc[p] = "check" /\ pc'[p] = "ret"
            => ~loc[p].started /\ fetches' = fetches
        /\ pc[p] = "spawn" /\ pc'[p] # "spawn"
            => /\ Cardinality(fetches') = Cardinality(fetches) + 1
               /\ \E f \in fetches' \ fetches : f.key = k /\ f.owner = "go"
               /\ loc'[p].started
        /\ pc[p] = "ret" /\ pc'[p] # "ret"
            => /\ Served(p)'
               /\ resp'[p].attributes = mapHeap[k][e.Attributes]
               /\ resp'[p].started => loc[p].now > e.Expires
               /\ (~resp'[p].started /\ loc[p].now > e.Expires)
                     => e.UpdatingFlag

C4_LookupServesAndRefreshes == [][\A p \in Procs : C4_Call(p)]_vars

\* C4 witness: for one key, one lookup has returned the stale snapshot and
\* started a refresh, and another has returned the same stale snapshot and
\* started none because the flag was set
C4_Witness ==
    \E p, q \in Procs :
        /\ Served(p) /\ Served(q)
        /\ resp[p].key = resp[q].key /\ resp[p].entry = resp[q].entry
        /\ resp[p].started /\ ~resp[q].started
        /\ resp[q].at > heap[resp[q].key][resp[q].entry].Expires
        /\ resp[p].attributes = resp[q].attributes

\* C5: per key the cached snapshot never goes backwards: the map never
\* replaces a snapshot by one fetched earlier (attribute maps are numbered
\* in the order the upstream answered), and a lookup never returns a
\* snapshot older than one that was installed when the lookup began
C5_Step ==
    /\ \A k \in Registered :
          k \in DOMAIN Cache /\ k \in DOMAIN Cache'
            => heap'[k][Cache'[k]].Attributes >= Current(k).Attributes
    /\ \A p \in Procs :
          pc[p] = "ret" /\ pc'[p] = "idle"
            => \A i \in resp'[p].inst :
                    resp'[p].ptr >= heap[resp'[p].key][i].Attributes

C5_NeverBackwards == [][C5_Step]_vars

\* C6: a failed upstream fetch of a background refresh is absorbed: the
\* process keeps serving, the refresh ends, the in-flight flag of the
\* key's entry is cleared and no entry changes otherwise
C6_Step ==
    \A f \in fetches :
        f.owner = "go" /\ FetchFail(f)
          => /\ phase' = "serving"
             /\ f \notin fetches'
             /\ Current(f.key)'.UpdatingFlag = FALSE
             /\ Current(f.key)'.Attributes = Current(f.key).Attributes
             /\ Current(f.key)'.Expires = Current(f.key).Expires
             /\ Cache' = Cache /\ mapHeap' = mapHeap

C6_FailureAbsorbed == [][C6_Step]_vars

\* C8: a lookup of a key that is not registered ends in the not-found
\* response, which lists "/"+key for every registered key and nothing
\* else; it changes no cache entry and starts no refresh
UrlsOfRegistered(urls) ==
    /\ {urls[i] : i \in 1..Len(urls)} = {<<"/">> \o k : k \in Registered}
    /\ Len(urls) = Cardinality(Registered)

C8_Step ==
    \A p \in Procs :
        pc[p] = "lookup" /\ loc[p].charKey \notin Registered /\ pc'[p] # pc[p]
          => /\ pc'[p] = "idle"
             /\ resp'[p].status = StatusNotFound
             /\ UrlsOfRegistered(resp'[p].urls)
             /\ UNCHANGED <<Cache, heap, mapHeap, fetches, spawned>>

C8_UnknownKeyNotFound == [][C8_Step]_vars

\* C8 witness: a not-found response was written while a refresh was in
\* flight and another key's entry had already been refreshed
C8_Witness ==
    \E p \in Procs :
        /\ resp[p].status = StatusNotFound
        /\ fetches # {}
        /\ \E k \in Registered : Len(heap[k]) > 1

\* C9: two lookups of one key that both fall inside one TTL window (both
\* begin after some snapshot was installed and end before it expires)
\* return identical attributes
InWindow(r, i) == i \in r.inst /\ r.end <= heap[r.key][i].Expires

C9_SameWithinWindow ==
    \A p, q \in Procs :
        Served(p) /\ Served(q) /\ resp[p].key = resp[q].key
          => \A i \in 1..Len(heap[resp[p].key]) :
                InWindow(resp[p], i) /\ InWindow(resp[q], i)
                  => resp[p].attributes = resp[q].attributes


\* C7: when the upstream fetch fails for a registered key that never had a
\* successful fetch, its caller gets an error outcome: the process lives
\* on, the fetch has ended, and no entry (so no empty attribute map) is
\* served for the key
C7_Step ==
    \A f \in fetches :
        Len(heap[f.key]) = 0 /\ FetchFail(f)
          => /\ phase' # "dead"
             /\ f \notin fetches'
             /\ f.key \notin DOMAIN Cache'

C7_FirstFetchErrorSurfaced == [][C7_Step]_vars

\* C10 (earlier variant, which reports servedFromCache): a lookup makes a
\* synchronous fetch only for a key that has no snapshot, and then answers
\* servedFromCache = false; every lookup of a key that has had a snapshot,
\* expired or not, answers servedFromCache = true without a fetch of its
\* own
C10_FirstFetchThenCached ==
    /\ \A f \in fetches : Len(heap[f.key]) = 0
    /\ \A p \in Procs :
          Served(p) =>
            IF resp[p].inst = {}
            THEN ~resp[p].cached /\ resp[p].started
            ELSE resp[p].cached /\ ~resp[p].started

\* the entries of key k a refresh goroutine made and stored: the first entry
\* of a key is the one the startup priming made
Refreshed(k) == {i \in Installed(k) : i > 1}

\* C11: once a refresh that a lookup started has installed its entry, the
\* map holds for the key the attributes that refresh fetched, or ones
\* fetched later, under an entry whose in-flight flag is clear, and every
\* lookup that begins after the install returns those attributes or newer
C11_RefreshTakesEffect ==
    /\ \A k \in Registered :
          k \in DOMAIN Cache =>
            \A i \in Refreshed(k) :
                /\ Current(k).Attributes >= heap[k][i].Attributes
                /\ Cache[k] > 1 /\ ~Current(k).UpdatingFlag
    /\ \A p \in Procs :
          Served(p) =>
            \A i \in resp[p].inst :
                i > 1 => resp[p].ptr >= heap[resp[p].key][i].Attributes


\* C12: a refresh installs attributes, expiry and cleared flag as one unit:
\* the attributes and the expiry of an entry never change once the entry
\* exists, and whenever the map comes to hold another entry with the flag
\* clear, that entry is one a fetch built whole (with the attribute map
\* that fetch made, untouched since) and stores in this very step
C12_Step ==
    /\ \A k \in Registered : \A i \in 1..Len(heap[k]) :
          /\ i <= Len(heap'[k])
          /\ heap'[k][i].Attributes = heap[k][i].Attributes
          /\ heap'[k][i].Expires = heap[k][i].Expires
    /\ \A k \in Registered :
          /\ k \in DOMAIN Cache /\ Cache'[k] # Cache[k]
          /\ ~heap'[k][Cache'[k]].UpdatingFlag
          => \E f \in fetches :
                /\ f.key = k /\ f.stage = "install" /\ f \notin fetches'
                /\ Cache'[k] = f.entry
                /\ heap'[k][f.entry].Attributes = f.charMap
                /\ heap'[k][f.entry] = heap[k][f.entry]

C12_AtomicInstall == [][C12_Step]_vars

\* C12 witness: a lookup that read the old entry is still between its
\* reads of the entry's fields when the refresh has installed the new
\* entry, flag clear
C12_Witness ==
    \E p \in Procs :
        /\ pc[p] \in {"clock", "check", "ret"}
        /\ Cache[loc[p].charKey] # loc[p].entry
        /\ ~Current(loc[p].charKey).UpdatingFlag
        /\ Current(loc[p].charKey).Attributes
              # heap[loc[p].charKey][loc[p].entry].Attributes

\* a lookup of handler p leaves the statement of line 209 in this step
Checks(p) == pc[p] = "check" /\ pc'[p] # "check"

\* the entry handler p holds
Held(p) == heap[loc[p].charKey][loc[p].entry]

\* C13 (as stated): the expiry check is inclusive: a lookup whose clock
\* reading is at or after the expiry of the entry it holds, flag clear,
\* goes on to set the flag and start a refresh
C13_InclusiveExpiry ==
    [][\A p \in Procs :
          Checks(p) /\ ~Held(p).UpdatingFlag /\ loc[p].now >= Held(p).Expires
            => pc'[p] = "setflag"]_vars

\* C13 (amended): the expiry check is exclusive: a lookup whose clock
\* reading equals the expiry of the entry it holds returns the snapshot
\* without setting the flag or starting a refresh, flag clear or not; with
\* the flag clear a refresh is started exactly for readings after the expiry
C13_Step ==
    \A p \in Procs :
        /\ Checks(p) /\ ~Held(p).UpdatingFlag
            => ((pc'[p] = "setflag") <=> loc[p].now > Held(p).Expires)
        /\ Checks(p) /\ loc[p].now = Held(p).Expires
            => pc'[p] = "ret" /\ UNCHANGED <<heap, Cache, fetches, spawned>>
        /\ pc[p] = "ret" /\ pc'[p] = "idle" /\ loc[p].now = Held(p).Expires
            => /\ Served(p)' /\ ~resp'[p].started
               /\ UNCHANGED <<heap, Cache, fetches, spawned>>

C13_StrictExpiry == [][C13_Step]_vars

\* C13 witness: a lookup made exactly at the expiry instant of an entry
\* whose flag is clear has returned, and no refresh of the key was started
C13_Witness ==
    \E p \in Procs :
        /\ Served(p) /\ ~resp[p].started
        /\ resp[p].at = heap[resp[p].key][resp[p].entry].Expires
        /\ ~heap[resp[p].key][resp[p].entry].UpdatingFlag
        /\ spawned[resp[p].key] = 1

\* what a lookup must leave alone when it starts no refresh
LookupFrame == UNCHANGED <<Cache, heap, mapHeap, fetches, spawned>>

\* C14: a lookup that finds the entry it holds unexpired, or finds its
\* in-flight flag set, goes straight to its return: from reading the map to
\* writing the response it starts no fetch and changes no entry, no
\* attribute map and not the map itself
C14_Step ==
    \A p \in Procs :
        /\ pc[p] \in {"lookup", "clock"} /\ pc'[p] # pc[p] => LookupFrame
        /\ Checks(p) /\ (Held(p).UpdatingFlag \/ loc[p].now <= Held(p).Expires)
            => pc'[p] = "ret" /\ LookupFrame
        /\ pc[p] = "ret" /\ pc'[p] = "idle" /\ ~loc[p].started
            => Served(p)' /\ ~resp'[p].started /\ LookupFrame

C14_NoRefreshNoChange == [][C14_Step]_vars

\* C14 witness: one lookup has returned an unexpired snapshot, another has
\* returned an expired one whose flag it found set, and neither started a
\* refresh
C14_Witness ==
    \E p, q \in Procs :
        /\ Served(p) /\ ~resp[p].started
        /\ resp[p].at < heap[resp[p].key][resp[p].entry].Expires
        /\ Served(q) /\ ~resp[q].started
        /\ resp[q].at > heap[resp[q].key][resp[q].entry].Expires
        /\ heap[resp[q].key][resp[q].entry].UpdatingFlag

\* the fields of a descriptor whose value list in the answer has a row
Filled(c, r) == {i \in 1..Len(c.Attributes) : r[i].Values # << >>}

\* C15: for every descriptor and every answer aligned with its fields (each
\* value list that has a row having a first cell), the fetch does not fail
\* and the map it builds has a display name exactly for the fields whose
\* value list is not empty, each mapped to the first cell of its list; the
\* entry installed afterwards holds that very map
WellFormed(c, r) == \A i \in Filled(c, r) : r[i].Values[1] # << >>

C15_Step ==
    \A f \in fetches :
        /\ (BuildRespond(f) /\ WellFormed(f.charConfig, f.batchResp))
           => /\ phase' # "dead"
              /\ \E g \in fetches' :
                   /\ g.stage = "update"
                   /\ LET m == mapHeap'[g.key][g.charMap]
                          c == f.charConfig
                          r == f.batchResp
                      IN  /\ DOMAIN m = {c.Attributes[j].Name : j \in Filled(c, r)}
                          /\ \A j \in Filled(c, r) :
                                m[c.Attributes[j].Name] = Sprint(r[j].Values[1][1])
        /\ FetchInstall(f)
           => /\ f.key \in DOMAIN Cache'
              /\ heap'[f.key][Cache'[f.key]].Attributes = f.charMap
              /\ mapHeap' = mapHeap

C16_Step ==
    /\ \A k \in Registered : \A i \in 1..Len(mapHeap[k]) :
          i <= Len(mapHeap'[k]) /\ mapHeap'[k][i] = mapHeap[k][i]
    /\ \A p \in Procs :
          Served(p) /\ resp'[p] = resp[p]
            => mapHeap'[resp[p].key][resp[p].ptr] = resp[p].attributes
    /\ \A f \in fetches : \A g \in fetches' :
          /\ f.stage = "call" /\ g.stage = "update"
          /\ g.key = f.key /\ g.id = f.id /\ g.owner = f.owner
          => g.charMap = Len(mapHeap[f.key]) + 1

C16_ReturnedMapImmutable == [][C16_Step]_vars

\* C16 witness: a caller holds the map of the priming fetch while the
\* key's entry already refers to the map a refresh built, with different
\* contents
C16_Witness ==
    \E p \in Procs :
        /\ Served(p)
        /\ Current(resp[p].key).Attributes # resp[p].ptr
        /\ mapHeap[resp[p].key][Current(resp[p].key).Attributes]
              # resp[p].attributes
        /\ mapHeap[resp[p].key][resp[p].ptr] = resp[p].attributes

\* a step made for key k while serving: a step of a lookup of k, or of a
\* refresh goroutine of k (its fetch succeeding or failing, its install)
KeyStep(k) ==
    \/ \E p \in Procs : loc[p].charKey = k /\ LookupStep(p)
    \/ \E f \in Refreshes(k) :
          \/ FetchFail(f)
          \/ \E r \in BatchResponses(k) : FetchRespond(f, r)
          \/ FetchAllocate(f)
          \/ FetchInstall(f)

\* C17: keys are independent: a step made for key k (of a lookup, of a
\* refresh starting, succeeding or failing) leaves the entry, the entries'
\* fields and the attribute maps of every other key as they were, and the
\* service goes on serving, so that lookups of the other keys are answered
C17_Step ==
    \A k \in Registered :
        KeyStep(k)
          => /\ phase' = "serving"
             /\ \A j \in Registered \ {k} :
                   /\ Cache'[j] = Cache[j]
                   /\ heap'[j] = heap[j]
                   /\ mapHeap'[j] = mapHeap[j]

C17_KeysIndependent == [][C17_Step]_vars

\* C18: once the service is serving, the keys that have a cache entry are
\* exactly the registered keys, and each entry holds a snapshot (an
\* attribute map that exists): no entry is missing or deleted, none exists
\* for an unregistered key
C18_EntryPerRegisteredKey ==
    phase = "serving" =>
        /\ DOMAIN Cache = Registered
        /\ \A k \in DOMAIN Cache :
              /\ Cache[k] \in 1..Len(heap[k])
              /\ Current(k).Attributes \in 1..Len(mapHeap[k])

\* C18 witness: the service has answered a lookup of an unregistered key
\* with not-found and has installed a refreshed entry for a registered key,
\* and no fetch is outstanding
C18_Witness ==
    /\ phase = "serving"
    /\ fetches = {}
    /\ \E p \in Procs : resp[p].status = StatusNotFound
    /\ \E k \in DOMAIN Cache : Cache[k] > 1

\* C19: every refresh that is started ends: a key that has a refresh
\* goroutine outstanding comes to have none, and an entry whose in-flight
\* flag is set does not keep the key's flag set forever
C19_RefreshEnds ==
    \A k \in Registered :
        /\ (Refreshes(k) # {}) ~> (Refreshes(k) = {})
        /\ (k \in DOMAIN Cache /\ Current(k).UpdatingFlag)
              ~> (k \in DOMAIN Cache /\ ~Current(k).UpdatingFlag)

\* C20: every successful fetch, priming or refresh, of any key, makes an
\* entry whose expiry is the clock reading at the end of the fetch (the
\* time.Now() of UpdateCachedEntry) plus TTL, whenever the fetch began;
\* the expiry stays what it is when the entry is stored in the map
C20_Step ==
    \A f \in fetches :
        /\ FetchAllocate(f)
           => /\ Len(heap'[f.key]) = Len(heap[f.key]) + 1
              /\ heap'[f.key][Len(heap'[f.key])].Expires = now + TTL
        /\ FetchInstall(f)
           => Current(f.key)'.Expires = heap[f.key][f.entry].Expires

C20_ExpiryFromCompletion == [][C20_Step]_vars

\* C20 witness: a refresh that began one TTL before it ended is storing its
\* entry, whose expiry is the end time plus TTL, and the priming of some
\* key likewise ended later than it began
C20_Witness ==
    /\ \E f \in fetches :
          /\ f.owner = "go" /\ f.stage = "install"
          /\ f.start < now
          /\ heap[f.key][f.entry].Expires = now + TTL
    /\ \E k \in Registered :
          Len(heap[k]) > 0 /\ heap[k][1].Expires > TTL

\* the handlers that have set the flag of the entry the map holds for k
\* and are on their way to the go statement: their refresh is as good as
\* started
Starting(k) ==
    {p \in Procs : /\ pc[p] \in {"store", "spawn"}
                   /\ loc[p].charKey = k /\ loc[p].entry = Cache[k]}

\* C21: while serving, the in-flight flag of the entry the map holds for a
\* key is set exactly when a background refresh of the key is outstanding
\* (started, or about to be started by the handler that set the flag); in
\* particular the flag is never clear while a refresh of the key runs
C21_FlagIffRefreshing ==
    phase = "serving" =>
        \A k \in DOMAIN Cache :
            Current(k).UpdatingFlag
                <=> (Refreshes(k) # {} \/ Starting(k) # {})

\* C22: upstream calls are rate-limited per key: when a refresh of a key is
\* started, no earlier refresh of the key is still outstanding, and every
\* entry installed for the key so far has reached its expiry, that is, a
\* full TTL has passed since the fetch that made it completed
C22_Step ==
    \A p \in Procs :
        pc[p] = "spawn" /\ pc'[p] # "spawn"
          => /\ Refreshes(loc[p].charKey) = {}
             /\ \A i \in Installed(loc[p].charKey) :
                    now >= heap[loc[p].charKey][i].Expires

C22_RateLimited == [][C22_Step]_vars

====
